---- MODULE Spec2Model ----
(***************************************************************************)
(* Nutri-Tracker: the personalized goal calculator                         *)
(* (server/services/nutrition-calculator), the POST /api/calculate-goals   *)
(* handler of server/routes.ts and the daily goals, food entries and user  *)
(* profile kept by MemStorage.  Spec follows the requests to the handler,  *)
(* CalculatorSpec follows direct calls of the calculator and the storage.  *)
(*                                                                         *)
(* JavaScript numbers are modelled as exact rationals in lowest terms,     *)
(* [n |-> numerator, d |-> denominator > 0, err |-> e], where e tells how  *)
(* the double relates to this value:                                       *)
(*   0  the double holds exactly this value (a dyadic rational; all values *)
(*      here are far below 2^53);                                          *)
(*   1  the double is a literal of the source whose relative distance to   *)
(*      its decimal value is below 2^-54 (1.2, 1.55, 1.725, 1.9, 1.8 and   *)
(*      4.33 are; 0.28 is not);                                            *)
(*   2  the double carries some other rounding error.                      *)
(* IEEE-754 operations are correctly rounded: an operation on exact        *)
(* operands with a dyadic result is exact, and so is the product of an     *)
(* exact operand by a literal of kind 1 when the decimal product is        *)
(* dyadic (the error of the product is below half an ulp of it).  A double *)
(* that is not exact differs from the modelled value by a relative error   *)
(* near 1e-16, far less than the spacing of the values the inputs can      *)
(* produce, so Math.round of it is Math.round of the modelled value unless *)
(* that value lies on a .5 tie; there the error decides, and Math.round    *)
(* yields one of the two neighbouring integers.  MathRound is therefore    *)
(* the set of integers Math.round can return.                              *)
(***************************************************************************)
EXTENDS Integers, Sequences, FiniteSets, TLC

VARIABLES
    reqRoute,            \* "", or the method and path of the last request sent
    reqBody,             \* << >>, or <<b>> for the body b of that request
    res,                 \* << >>, or <<r>> for the response r sent to that request
    handlerCalls,        \* the functions its handler called, in order
    dailyGoals,          \* MemStorage.dailyGoals
    foodEntries,         \* MemStorage.foodEntries, the Map from ids to food entries
    currentFoodEntryId,  \* MemStorage.currentFoodEntryId
    exerciseEntries,     \* MemStorage.exerciseEntries, the Map from ids to exercise entries
    currentExerciseEntryId, \* MemStorage.currentExerciseEntryId
    foodHistory,         \* the food entries createFoodEntry has returned, by id, and the ids
                         \* passed to deleteFoodEntry after they were handed out
    exerciseHistory,     \* the same for createExerciseEntry and deleteExerciseEntry
    userProfileData,     \* MemStorage.userProfileData: << >> for undefined, or <<profile>>
    raised,              \* the message of the error the last direct call of
                         \* updateUserProfile threw, "" if it returned
    now,                 \* the wall clock, new Date()
    profileRequests,     \* the requests to POST /api/profile so far, each with the
                         \* position of its handler and what the handler holds
    step,                \* ProfileSetup: the step of the wizard
    calculatedResults,   \* ProfileSetup: << >> for null, or <<results>>
    pending,             \* ProfileSetup: << >>, or one record while the mutations of a
                         \* submit are pending: its data, and whether
                         \* window.localStorage took the profile
    localStore,          \* the user profile and the daily goals in window.localStorage
    showProfileSetup,    \* NutritionTracker: showProfileSetup
    profileQuery,        \* NutritionTracker: the query ['/api/profile'], its data, and
                         \* whether it last fetched after the wizard saved the profile
    completed,           \* whether ProfileSetup has called onComplete
    calls,               \* the direct calls of calculatePersonalizedGoals so far, oldest first
    rounded              \* how the platform rounded the inexact halves met in those calls

storageVars ==
    <<dailyGoals, foodEntries, currentFoodEntryId, exerciseEntries, currentExerciseEntryId,
      userProfileData>>

foodVars == <<foodEntries, currentFoodEntryId, foodHistory>>

exerciseVars == <<exerciseEntries, currentExerciseEntryId, exerciseHistory>>

\* the last request and what its handler did
httpVars == <<reqRoute, reqBody, res, handlerCalls>>

\* the requests to POST /api/profile under way, and the clock
requestVars == <<profileRequests, now>>

\* the browser: the wizard, the tracker page and local storage
clientVars ==
    <<step, calculatedResults, pending, localStore, showProfileSetup, profileQuery, completed>>

vars ==
    <<reqRoute, reqBody, res, handlerCalls, dailyGoals, foodEntries, currentFoodEntryId,
      exerciseEntries, currentExerciseEntryId, foodHistory, exerciseHistory, userProfileData,
      raised, now, profileRequests, step, calculatedResults, pending, localStore,
      showProfileSetup, profileQuery, completed, calls, rounded>>

(***************************************************************************)
(* Number arithmetic                                                       *)
(***************************************************************************)
RECURSIVE GCD(_, _)
GCD(a, b) == IF b = 0 THEN a ELSE GCD(b, a % b)

Abs(i) == IF i < 0 THEN 0 - i ELSE i

RECURSIVE IsPowerOfTwo(_)
IsPowerOfTwo(d) == d = 1 \/ (d % 2 = 0 /\ IsPowerOfTwo(d \div 2))

\* the value n/d (d > 0) held with error kind err unless it is dyadic and exactDyadic
Num(n, d, exactDyadic, err) ==
    LET g == GCD(Abs(n), d)
    IN  [n |-> n \div g, d |-> d \div g,
         err |-> IF exactDyadic /\ IsPowerOfTwo(d \div g) THEN 0 ELSE err]

\* a decimal literal of the source within 2^-54 of its double
R(n, d) == Num(n, d, TRUE, 1)

\* a decimal number parsed from a request body, or the literal 0.28
Decimal(n, d) == Num(n, d, TRUE, 2)

RInt(i) == [n |-> i, d |-> 1, err |-> 0]

RAdd(a, b) == Num(a.n * b.d + b.n * a.d, a.d * b.d, a.err = 0 /\ b.err = 0, 2)

RSub(a, b) == Num(a.n * b.d - b.n * a.d, a.d * b.d, a.err = 0 /\ b.err = 0, 2)

RMul(a, b) == Num(a.n * b.n, a.d * b.d, a.err + b.err <= 1, 2)

\* a / b for b > 0
RDiv(a, b) == Num(a.n * b.d, a.d * b.n, a.err = 0 /\ b.err = 0, 2)

RNeg(a) == [a EXCEPT !.n = 0 - a.n]

REq(a, b) == a.n = b.n /\ a.d = b.d

RLess(a, b) == a.n * b.d < b.n * a.d

RLeq(a, b) == a.n * b.d <= b.n * a.d

MathAbs(a) == IF a.n < 0 THEN RNeg(a) ELSE a

MathMax(a, b) == IF RLess(a, b) THEN b ELSE a

MathMin(a, b) == IF RLess(b, a) THEN b ELSE a

MathFloor(a) == a.n \div a.d

RECURSIVE Log2(_)
Log2(i) == IF i <= 1 THEN 0 ELSE 1 + Log2(i \div 2)

\* the binary exponent of a double of magnitude at least 1
Exponent(a) == Log2(MathFloor(MathAbs(a)))

\* the exact value lies halfway between two integers
IsTie(a) == a.d = 2

\* the exact nearest integer, halves toward +Infinity
RoundHalfUp(a) == (2 * a.n + a.d) \div (2 * a.d)

\* Math.round of the double that evaluates an expression of exact value a
MathRound(a) ==
    IF IsTie(a) /\ a.err # 0 THEN {MathFloor(a), MathFloor(a) + 1} ELSE {RoundHalfUp(a)}

(***************************************************************************)
(* shared/schema.ts                                                        *)
(***************************************************************************)
Genders == {"male", "female"}

ActivityLevels == {"sedentary", "lightly_active", "moderately_active", "very_active", "extremely_active"}

\* age and timeframe are integers, the weights and the height are rationals
calculateGoalsSchema(body) ==
    /\ {"age", "gender", "currentWeight", "targetWeight", "height", "activityLevel", "timeframe"}
           \subseteq DOMAIN body
    /\ body.age >= 1 /\ body.age <= 120
    /\ body.gender \in Genders
    /\ RLeq(RInt(1), body.currentWeight) /\ RLeq(body.currentWeight, RInt(500))
    /\ RLeq(RInt(1), body.targetWeight) /\ RLeq(body.targetWeight, RInt(500))
    /\ RLeq(RInt(50), body.height) /\ RLeq(body.height, RInt(300))
    /\ body.activityLevel \in ActivityLevels
    /\ body.timeframe >= 1 /\ body.timeframe <= 24

(***************************************************************************)
(* server/services/nutrition-calculator                                    *)
(***************************************************************************)
ACTIVITY_MULTIPLIERS == [a \in ActivityLevels |->
    CASE a = "sedentary" -> R(12, 10)
      [] a = "lightly_active" -> R(1375, 1000)
      [] a = "moderately_active" -> R(155, 100)
      [] a = "very_active" -> R(1725, 1000)
      [] a = "extremely_active" -> R(19, 10)]

SAFE_WEIGHT_CHANGE_RATES_widegain == [maxWeightLossPerWeek |-> R(10, 10), maxWeightGainPerWeek |-> R(10, 10),
    minWeightLossPerWeek |-> R(25, 100), minWeightGainPerWeek |-> R(25, 100)]

SAFE_WEIGHT_CHANGE_RATES == [maxWeightLossPerWeek |-> R(10, 10), maxWeightGainPerWeek |-> R(5, 10),
    minWeightLossPerWeek |-> R(25, 100), minWeightGainPerWeek |-> R(25, 100)]

calculateBMR_swappedOffsets(weight, height, age, gender) ==
    LET baseBMR == RSub(RAdd(RMul(RInt(10), weight), RMul(R(625, 100), height)),
                        RMul(RInt(5), RInt(age)))
    IN  IF gender = "male" THEN RSub(baseBMR, RInt(161)) ELSE RAdd(baseBMR, RInt(5))

calculateBMR(weight, height, age, gender) ==
    LET baseBMR == RSub(RAdd(RMul(RInt(10), weight), RMul(R(625, 100), height)),
                        RMul(RInt(5), RInt(age)))
    IN  IF gender = "male" THEN RAdd(baseBMR, RInt(5)) ELSE RSub(baseBMR, RInt(161))

\* the property names every object literal inherits from Object.prototype
ObjectPrototype ==
    {"constructor", "hasOwnProperty", "isPrototypeOf", "propertyIsEnumerable", "toLocaleString",
     "toString", "valueOf", "__proto__", "__defineGetter__", "__defineSetter__", "__lookupGetter__",
     "__lookupSetter__"}

\* the number NaN
NaN == [n |-> 0, d |-> 0, err |-> 2]

calculateTDEE_roundedBmr(bmr, activityLevel) ==
    IF activityLevel \in DOMAIN ACTIVITY_MULTIPLIERS
    THEN RMul(RInt(RoundHalfUp(bmr)), ACTIVITY_MULTIPLIERS[activityLevel])
    ELSE IF activityLevel \in ObjectPrototype
    THEN NaN
    ELSE RMul(RInt(RoundHalfUp(bmr)), R(12, 10))

\* ACTIVITY_MULTIPLIERS[activityLevel] || 1.2: an own key yields its
\* multiplier and a name found nowhere yields undefined, replaced by 1.2; a
\* name inherited from Object.prototype yields a function or an object,
\* which is truthy and is kept, and bmr times it is NaN
calculateTDEE(bmr, activityLevel) ==
    IF activityLevel \in DOMAIN ACTIVITY_MULTIPLIERS
    THEN RMul(bmr, ACTIVITY_MULTIPLIERS[activityLevel])
    ELSE IF activityLevel \in ObjectPrototype
    THEN NaN
    ELSE RMul(bmr, R(12, 10))

calculateWeightChangeRate_lossOrEqual(currentWeight, targetWeight, timeframeMonths) ==
    LET totalWeightChange == RSub(targetWeight, currentWeight)
        timeframeWeeks == RMul(RInt(timeframeMonths), R(433, 100))
        desiredWeeklyChange == RDiv(totalWeightChange, timeframeWeeks)
        isWeightLoss == RLeq(totalWeightChange, RInt(0))
        absDesiredChange == MathAbs(desiredWeeklyChange)
    IN  IF isWeightLoss
        THEN RNeg(MathMin(MathMax(absDesiredChange, SAFE_WEIGHT_CHANGE_RATES.minWeightLossPerWeek),
                          SAFE_WEIGHT_CHANGE_RATES.maxWeightLossPerWeek))
        ELSE MathMin(MathMax(absDesiredChange, SAFE_WEIGHT_CHANGE_RATES.minWeightGainPerWeek),
                     SAFE_WEIGHT_CHANGE_RATES.maxWeightGainPerWeek)

calculateWeightChangeRate_unsigned(currentWeight, targetWeight, timeframeMonths) ==
    LET totalWeightChange == RSub(targetWeight, currentWeight)
        timeframeWeeks == RMul(RInt(timeframeMonths), R(433, 100))
        desiredWeeklyChange == RDiv(totalWeightChange, timeframeWeeks)
        isWeightLoss == RLess(totalWeightChange, RInt(0))
        absDesiredChange == MathAbs(desiredWeeklyChange)
    IN  IF isWeightLoss
        THEN MathMin(MathMax(absDesiredChange, SAFE_WEIGHT_CHANGE_RATES.minWeightLossPerWeek),
                     SAFE_WEIGHT_CHANGE_RATES.maxWeightLossPerWeek)
        ELSE MathMin(MathMax(absDesiredChange, SAFE_WEIGHT_CHANGE_RATES.minWeightGainPerWeek),
                     SAFE_WEIGHT_CHANGE_RATES.maxWeightGainPerWeek)

calculateWeightChangeRate(currentWeight, targetWeight, timeframeMonths) ==
    LET totalWeightChange == RSub(targetWeight, currentWeight)
        timeframeWeeks == RMul(RInt(timeframeMonths), R(433, 100))
        desiredWeeklyChange == RDiv(totalWeightChange, timeframeWeeks)
        isWeightLoss == RLess(totalWeightChange, RInt(0))
        absDesiredChange == MathAbs(desiredWeeklyChange)
    IN  IF isWeightLoss
        THEN RNeg(MathMin(MathMax(absDesiredChange, SAFE_WEIGHT_CHANGE_RATES.minWeightLossPerWeek),
                          SAFE_WEIGHT_CHANGE_RATES.maxWeightLossPerWeek))
        ELSE MathMin(MathMax(absDesiredChange, SAFE_WEIGHT_CHANGE_RATES.minWeightGainPerWeek),
                     SAFE_WEIGHT_CHANGE_RATES.maxWeightGainPerWeek)

calculateCalorieAdjustment_kcal7000(weeklyWeightChange) ==
    LET caloriesPerKg == 7000
        dailyCalorieChange == RDiv(RMul(weeklyWeightChange, RInt(caloriesPerKg)), RInt(7))
    IN  MathRound(dailyCalorieChange)

calculateCalorieAdjustment_ofRoundedRate(weeklyWeightChange) ==
    LET caloriesPerKg == 7700
        roundedRate == RDiv(RInt(RoundHalfUp(RMul(weeklyWeightChange, RInt(100)))), RInt(100))
        dailyCalorieChange == RDiv(RMul(roundedRate, RInt(caloriesPerKg)), RInt(7))
    IN  MathRound(dailyCalorieChange)

calculateCalorieAdjustment(weeklyWeightChange) ==
    LET caloriesPerKg == 7700
        dailyCalorieChange == RDiv(RMul(weeklyWeightChange, RInt(caloriesPerKg)), RInt(7))
    IN  MathRound(dailyCalorieChange)

calculateMacronutrients_proteinTwice(totalCalories, targetWeight, isWeightLoss) ==
    LET proteinPerKg == IF isWeightLoss THEN R(20, 10) ELSE R(18, 10)
        proteinGrams == RMul(targetWeight, proteinPerKg)
        proteinCalories == RMul(proteinGrams, RInt(8))
        fatPercentage == Decimal(28, 100)
        fatCalories == RMul(RInt(totalCalories), fatPercentage)
        fatGrams == RDiv(fatCalories, RInt(9))
        remainingCalories == RSub(RSub(RInt(totalCalories), proteinCalories), fatCalories)
        carbGrams == MathMax(RDiv(remainingCalories, RInt(4)), RInt(0))
    IN  {[carbs |-> c, protein |-> p, fat |-> f] :
            c \in MathRound(carbGrams), p \in MathRound(proteinGrams), f \in MathRound(fatGrams)}

calculateMacronutrients_unclamped(totalCalories, targetWeight, isWeightLoss) ==
    LET proteinPerKg == IF isWeightLoss THEN R(20, 10) ELSE R(18, 10)
        proteinGrams == RMul(targetWeight, proteinPerKg)
        proteinCalories == RMul(proteinGrams, RInt(4))
        fatPercentage == Decimal(28, 100)
        fatCalories == RMul(RInt(totalCalories), fatPercentage)
        fatGrams == RDiv(fatCalories, RInt(9))
        remainingCalories == RSub(RSub(RInt(totalCalories), proteinCalories), fatCalories)
        carbGrams == RDiv(remainingCalories, RInt(4))
    IN  {[carbs |-> c, protein |-> p, fat |-> f] :
            c \in MathRound(carbGrams), p \in MathRound(proteinGrams), f \in MathRound(fatGrams)}

calculateMacronutrients_fat30(totalCalories, targetWeight, isWeightLoss) ==
    LET proteinPerKg == IF isWeightLoss THEN R(20, 10) ELSE R(18, 10)
        proteinGrams == RMul(targetWeight, proteinPerKg)
        proteinCalories == RMul(proteinGrams, RInt(4))
        fatPercentage == Decimal(30, 100)
        fatCalories == RMul(RInt(totalCalories), fatPercentage)
        fatGrams == RDiv(fatCalories, RInt(9))
        remainingCalories == RSub(RSub(RInt(totalCalories), proteinCalories), fatCalories)
        carbGrams == MathMax(RDiv(remainingCalories, RInt(4)), RInt(0))
    IN  {[carbs |-> c, protein |-> p, fat |-> f] :
            c \in MathRound(carbGrams), p \in MathRound(proteinGrams), f \in MathRound(fatGrams)}

calculateMacronutrients_roundedProtein(totalCalories, targetWeight, isWeightLoss) ==
    LET proteinPerKg == IF isWeightLoss THEN R(20, 10) ELSE R(18, 10)
        proteinGrams == RMul(targetWeight, proteinPerKg)
        fatPercentage == Decimal(28, 100)
        fatCalories == RMul(RInt(totalCalories), fatPercentage)
        fatGrams == RDiv(fatCalories, RInt(9))
    IN  {[carbs |-> c, protein |-> p, fat |-> f] :
            p \in MathRound(proteinGrams), f \in MathRound(fatGrams),
            c \in UNION {MathRound(MathMax(RDiv(RSub(RSub(RInt(totalCalories), RInt(4 * q)), fatCalories),
                                                RInt(4)), RInt(0))) : q \in MathRound(proteinGrams)}}

calculateMacronutrients_carbsBesideFat(totalCalories, targetWeight, isWeightLoss) ==
    LET proteinPerKg == IF isWeightLoss THEN R(20, 10) ELSE R(18, 10)
        proteinGrams == RMul(targetWeight, proteinPerKg)
        proteinCalories == RMul(proteinGrams, RInt(4))
        fatPercentage == Decimal(28, 100)
        fatCalories == RMul(RInt(totalCalories), fatPercentage)
        fatGrams == RDiv(fatCalories, RInt(9))
        remainingCalories == RSub(RInt(totalCalories), proteinCalories)
        carbGrams == MathMax(RDiv(remainingCalories, RInt(4)), RInt(0))
    IN  {[carbs |-> c, protein |-> p, fat |-> f] :
            c \in MathRound(carbGrams), p \in MathRound(proteinGrams), f \in MathRound(fatGrams)}

calculateMacronutrients(totalCalories, targetWeight, isWeightLoss) ==
    LET proteinPerKg == IF isWeightLoss THEN R(20, 10) ELSE R(18, 10)
        proteinGrams == RMul(targetWeight, proteinPerKg)
        proteinCalories == RMul(proteinGrams, RInt(4))
        fatPercentage == Decimal(28, 100)
        fatCalories == RMul(RInt(totalCalories), fatPercentage)
        fatGrams == RDiv(fatCalories, RInt(9))
        remainingCalories == RSub(RSub(RInt(totalCalories), proteinCalories), fatCalories)
        carbGrams == MathMax(RDiv(remainingCalories, RInt(4)), RInt(0))
    IN  {[carbs |-> c, protein |-> p, fat |-> f] :
            c \in MathRound(carbGrams), p \in MathRound(proteinGrams), f \in MathRound(fatGrams)}

minimumCalories_swapped(gender) == IF gender = "female" THEN 1500 ELSE 1200

minimumCalories(gender) == IF gender = "female" THEN 1200 ELSE 1500

RoundedTargetAndTdee_truncated(tdee, calorieAdjustment) ==
    {<<MathFloor(RAdd(tdee, RInt(calorieAdjustment))), t>> : t \in MathRound(tdee)}

\* Math.round(tdee + calorieAdjustment) and Math.round(tdee) of the same
\* double tdee.  The integer calorieAdjustment is a multiple of the last bit
\* of tdee, so the sum is exact, and the two roundings agree, unless the sum
\* needs a larger exponent; then it loses its last bit and a tdee just below
\* a tie may be rounded up onto the tie.
RoundedTargetAndTdee(tdee, calorieAdjustment) ==
    LET sum == RAdd(tdee, RInt(calorieAdjustment))
    IN  {tt \in MathRound(sum) \X MathRound(tdee) :
            \/ tt[1] = tt[2] + calorieAdjustment
            \/ Exponent(sum) > Exponent(tdee) /\ tt[1] = tt[2] + calorieAdjustment + 1}

CalculatedGoals_reconciled(request, bmr, weeklyWeightChange, calorieAdjustment, tt) ==
    LET targetCalories == tt[1]
        finalCalories == IF targetCalories > minimumCalories(request.gender)
                         THEN targetCalories ELSE minimumCalories(request.gender)
        isWeightLoss == RLess(request.targetWeight, request.currentWeight)
    IN  {[calories |-> finalCalories,
          carbs |-> macros.carbs,
          protein |-> macros.protein,
          fat |-> macros.fat,
          bmr |-> b,
          tdee |-> tt[2],
          weightChangePerWeek |-> RDiv(RInt(w100), RInt(100)),
          calorieAdjustment |-> finalCalories - tt[2]] :
            macros \in calculateMacronutrients(finalCalories, request.targetWeight, isWeightLoss),
            b \in MathRound(bmr),
            w100 \in MathRound(RMul(weeklyWeightChange, RInt(100)))}

CalculatedGoals_preFloorMacros(request, bmr, weeklyWeightChange, calorieAdjustment, tt) ==
    LET targetCalories == tt[1]
        finalCalories == IF targetCalories > minimumCalories(request.gender)
                         THEN targetCalories ELSE minimumCalories(request.gender)
        isWeightLoss == RLess(request.targetWeight, request.currentWeight)
    IN  {[calories |-> finalCalories,
          carbs |-> macros.carbs,
          protein |-> macros.protein,
          fat |-> macros.fat,
          bmr |-> b,
          tdee |-> tt[2],
          weightChangePerWeek |-> RDiv(RInt(w100), RInt(100)),
          calorieAdjustment |-> calorieAdjustment] :
            macros \in calculateMacronutrients(targetCalories, request.targetWeight, isWeightLoss),
            b \in MathRound(bmr),
            w100 \in MathRound(RMul(weeklyWeightChange, RInt(100)))}

CalculatedGoals_lossWhenEqual(request, bmr, weeklyWeightChange, calorieAdjustment, tt) ==
    LET targetCalories == tt[1]
        finalCalories == IF targetCalories > minimumCalories(request.gender)
                         THEN targetCalories ELSE minimumCalories(request.gender)
        isWeightLoss == RLeq(request.targetWeight, request.currentWeight)
    IN  {[calories |-> finalCalories,
          carbs |-> macros.carbs,
          protein |-> macros.protein,
          fat |-> macros.fat,
          bmr |-> b,
          tdee |-> tt[2],
          weightChangePerWeek |-> RDiv(RInt(w100), RInt(100)),
          calorieAdjustment |-> calorieAdjustment] :
            macros \in calculateMacronutrients(finalCalories, request.targetWeight, isWeightLoss),
            b \in MathRound(bmr),
            w100 \in MathRound(RMul(weeklyWeightChange, RInt(100)))}

\* the CalculatedGoals assembled from the rounded values
CalculatedGoals(request, bmr, weeklyWeightChange, calorieAdjustment, tt) ==
    LET targetCalories == tt[1]
        finalCalories == IF targetCalories > minimumCalories(request.gender)
                         THEN targetCalories ELSE minimumCalories(request.gender)
        isWeightLoss == RLess(request.targetWeight, request.currentWeight)
    IN  {[calories |-> finalCalories,
          carbs |-> macros.carbs,
          protein |-> macros.protein,
          fat |-> macros.fat,
          bmr |-> b,
          tdee |-> tt[2],
          weightChangePerWeek |-> RDiv(RInt(w100), RInt(100)),
          calorieAdjustment |-> calorieAdjustment] :
            macros \in calculateMacronutrients(finalCalories, request.targetWeight, isWeightLoss),
            b \in MathRound(bmr),
            w100 \in MathRound(RMul(weeklyWeightChange, RInt(100)))}

\* the CalculatedGoals when tdee is NaN: Math.round(NaN + calorieAdjustment),
\* Math.max(NaN, minimumCalories), NaN * 0.28 and the remaining calories are
\* all NaN, so calories, carbs, fat and tdee are NaN; these fields are listed
\* in the field NaN, the others hold their numbers
CalculatedGoalsOfNaN(request, bmr, weeklyWeightChange, calorieAdjustment) ==
    LET isWeightLoss == RLess(request.targetWeight, request.currentWeight)
        proteinPerKg == IF isWeightLoss THEN R(20, 10) ELSE R(18, 10)
    IN  {[NaN |-> {"calories", "carbs", "fat", "tdee"},
          protein |-> p,
          bmr |-> b,
          weightChangePerWeek |-> RDiv(RInt(w100), RInt(100)),
          calorieAdjustment |-> calorieAdjustment] :
            p \in MathRound(RMul(request.targetWeight, proteinPerKg)),
            b \in MathRound(bmr),
            w100 \in MathRound(RMul(weeklyWeightChange, RInt(100)))}

\* the results calculatePersonalizedGoals can return for the request
calculatePersonalizedGoals(request) ==
    LET bmr == calculateBMR(request.currentWeight, request.height, request.age, request.gender)
        tdee == calculateTDEE(bmr, request.activityLevel)
        weeklyWeightChange == calculateWeightChangeRate(request.currentWeight, request.targetWeight,
                                                        request.timeframe)
    IN  UNION {IF tdee = NaN
               THEN CalculatedGoalsOfNaN(request, bmr, weeklyWeightChange, calorieAdjustment)
               ELSE UNION {CalculatedGoals(request, bmr, weeklyWeightChange, calorieAdjustment, tt) :
                              tt \in RoundedTargetAndTdee(tdee, calorieAdjustment)} :
                  calorieAdjustment \in calculateCalorieAdjustment(weeklyWeightChange)}

(***************************************************************************)
(* server/storage.ts: MemStorage                                           *)
(***************************************************************************)
MemStorageDailyGoals == [id |-> 1, calories |-> 2000, carbs |-> 250, protein |-> 120, fat |-> 78]

updateDailyGoals_replacing(stored, goals) == goals

\* { ...this.dailyGoals, ...goals }
updateDailyGoals(stored, goals) ==
    [k \in DOMAIN stored \cup DOMAIN goals |-> IF k \in DOMAIN goals THEN goals[k] ELSE stored[k]]

\* ids are handed out up to this one
MaxFoodEntryId == 2

\* a string whose characters are compared, as JavaScript compares them, by
\* their UTF-16 code units: a tuple of one-character strings
CharCode ==
    [c \in {"-", "0", "1", "2", "3", "4", "5", "6", "7", "8", "9"} |->
        CASE c = "-" -> 45 [] c = "0" -> 48 [] c = "1" -> 49 [] c = "2" -> 50 [] c = "3" -> 51
          [] c = "4" -> 52 [] c = "5" -> 53 [] c = "6" -> 54 [] c = "7" -> 55 [] c = "8" -> 56
          [] c = "9" -> 57]

\* a < b for strings: a is a proper prefix of b, or the first character in
\* which they differ has the smaller code unit in a
StringLess(a, b) ==
    \/ Len(a) < Len(b) /\ \A i \in 1..Len(a) : a[i] = b[i]
    \/ \E i \in 1..Len(a) :
          /\ i <= Len(b)
          /\ \A j \in 1..(i - 1) : a[j] = b[j]
          /\ CharCode[a[i]] < CharCode[b[i]]

StringLeq(a, b) == a = b \/ StringLess(a, b)

\* the dates of the entries, YYYY-MM-DD
Dec31 == <<"2", "0", "2", "4", "-", "1", "2", "-", "3", "1">>

Jan01 == <<"2", "0", "2", "5", "-", "0", "1", "-", "0", "1">>

Jan02 == <<"2", "0", "2", "5", "-", "0", "1", "-", "0", "2">>

Jan10 == <<"2", "0", "2", "5", "-", "0", "1", "-", "1", "0">>

FoodEntryInputs ==
    {[description |-> "apple", calories |-> 95, carbs |-> 25, protein |-> 0, fat |-> 0,
      date |-> Jan01]}

DailyGoalsInputs == {[calories |-> 1800, carbs |-> 200, protein |-> 130, fat |-> 60]}

\* the record of the calls of a create method and of its delete method: the
\* entry each create returned, and the ids deleted since they were handed out
NoHistory == [created |-> << >>, deleted |-> {}]

Created(history, id, entry) ==
    [created |-> [i \in DOMAIN history.created \cup {id} |->
                     IF i = id THEN entry ELSE history.created[i]],
     deleted |-> history.deleted \ {id}]

Deleted(history, id) ==
    IF id \in DOMAIN history.created
    THEN [history EXCEPT !.deleted = @ \cup {id}]
    ELSE history

\* storage.updateDailyGoals(goals)
UpdateDailyGoals(goals) ==
    /\ dailyGoals' = updateDailyGoals(dailyGoals, goals)
    /\ UNCHANGED <<raised, requestVars, clientVars, httpVars, foodVars, exerciseVars,
                   userProfileData, calls, rounded>>

createFoodEntry_reusingIds(entry) ==
    /\ currentFoodEntryId <= MaxFoodEntryId
    /\ LET id == Cardinality(DOMAIN foodEntries) + 1
           foodEntry == [f \in DOMAIN entry \cup {"id"} |-> IF f = "id" THEN id ELSE entry[f]]
       IN  /\ foodEntries' = [i \in DOMAIN foodEntries \cup {id} |->
                                 IF i = id THEN foodEntry ELSE foodEntries[i]]
           /\ foodHistory' = Created(foodHistory, id, foodEntry)
    /\ currentFoodEntryId' = currentFoodEntryId + 1
    /\ UNCHANGED <<raised, requestVars, clientVars, httpVars, dailyGoals, exerciseVars,
                   userProfileData, calls, rounded>>

\* the entry is stored under the next id; its timestamp, the wall clock, is
\* left out
createFoodEntry(entry) ==
    /\ currentFoodEntryId <= MaxFoodEntryId
    /\ LET id == currentFoodEntryId
           foodEntry == [f \in DOMAIN entry \cup {"id"} |-> IF f = "id" THEN id ELSE entry[f]]
       IN  foodEntries' = [i \in DOMAIN foodEntries \cup {id} |->
                              IF i = id THEN foodEntry ELSE foodEntries[i]]
    /\ currentFoodEntryId' = currentFoodEntryId + 1
    /\ foodHistory' = Created(foodHistory, currentFoodEntryId, foodEntries'[currentFoodEntryId])
    /\ UNCHANGED <<raised, requestVars, clientVars, httpVars, dailyGoals, exerciseVars,
                   userProfileData, calls, rounded>>

deleteFoodEntry_bothMaps(id) ==
    /\ foodEntries' = [i \in DOMAIN foodEntries \ {id} |-> foodEntries[i]]
    /\ exerciseEntries' = [i \in DOMAIN exerciseEntries \ {id} |-> exerciseEntries[i]]
    /\ foodHistory' = Deleted(foodHistory, id)
    /\ UNCHANGED <<raised, requestVars, clientVars, httpVars, dailyGoals, currentFoodEntryId,
                   currentExerciseEntryId, exerciseHistory,
                   userProfileData, calls, rounded>>

\* Map.delete: removes the entry if the id is present
deleteFoodEntry(id) ==
    /\ foodEntries' = [i \in DOMAIN foodEntries \ {id} |-> foodEntries[i]]
    /\ foodHistory' = Deleted(foodHistory, id)
    /\ UNCHANGED <<raised, requestVars, clientVars, httpVars, dailyGoals, currentFoodEntryId,
                   exerciseVars, userProfileData, calls, rounded>>

\* Array.from(this.foodEntries.values()).filter(entry => entry.date === date):
\* the values of a Map come in insertion order, here the order of the ids
RECURSIVE ValuesFrom(_, _, _)
ValuesFrom(entries, id, last) ==
    IF id > last THEN << >>
    ELSE IF id \in DOMAIN entries THEN <<entries[id]>> \o ValuesFrom(entries, id + 1, last)
    ELSE ValuesFrom(entries, id + 1, last)

Values(entries, nextId) == ValuesFrom(entries, 1, nextId - 1)

getFoodEntriesByDate(date) ==
    SelectSeq(Values(foodEntries, currentFoodEntryId), LAMBDA entry : entry.date = date)

\* ids of exercise entries are handed out up to this one
MaxExerciseEntryId == 2

ExerciseEntryInputs ==
    {[activity |-> "running", caloriesBurned |-> 300, duration |-> 30, date |-> Jan01]}

\* the entry is stored under the next id, without its timestamp
createExerciseEntry(entry) ==
    /\ currentExerciseEntryId <= MaxExerciseEntryId
    /\ LET id == currentExerciseEntryId
           exerciseEntry == [f \in DOMAIN entry \cup {"id"} |-> IF f = "id" THEN id ELSE entry[f]]
       IN  exerciseEntries' = [i \in DOMAIN exerciseEntries \cup {id} |->
                                  IF i = id THEN exerciseEntry ELSE exerciseEntries[i]]
    /\ currentExerciseEntryId' = currentExerciseEntryId + 1
    /\ exerciseHistory' =
           Created(exerciseHistory, currentExerciseEntryId, exerciseEntries'[currentExerciseEntryId])
    /\ UNCHANGED <<raised, requestVars, clientVars, httpVars, dailyGoals, foodVars,
                   userProfileData, calls, rounded>>

getExerciseEntriesByDate(date) ==
    SelectSeq(Values(exerciseEntries, currentExerciseEntryId), LAMBDA entry : entry.date = date)

\* Map.delete: removes the entry if the id is present
deleteExerciseEntry(id) ==
    /\ exerciseEntries' = [i \in DOMAIN exerciseEntries \ {id} |-> exerciseEntries[i]]
    /\ exerciseHistory' = Deleted(exerciseHistory, id)
    /\ UNCHANGED <<raised, requestVars, clientVars, httpVars, dailyGoals, foodVars,
                   currentExerciseEntryId, userProfileData, calls, rounded>>

(***************************************************************************)
(* Request bodies                                                          *)
(***************************************************************************)
\* <<currentWeight, targetWeight>>: loss, gain, maintain, and the extremes
WeightGoals ==
    {<<RInt(90), RInt(80)>>, <<RInt(80), RInt(90)>>, <<RInt(90), RInt(90)>>, <<RInt(1), RInt(1)>>,
     <<RInt(1), RInt(80)>>, <<RInt(90), RInt(1)>>, <<RInt(1), RInt(500)>>}

Timeframes == {6, 24}

Body(age, gender, weights, height, activityLevel, timeframe) ==
    [age |-> age, gender |-> gender, currentWeight |-> weights[1], targetWeight |-> weights[2],
     height |-> height, activityLevel |-> activityLevel, timeframe |-> timeframe]

\* 30-year-olds of 180 cm with every goal, activity level and timeframe
CommonBodies ==
    {Body(30, g, w, RInt(180), a, t) : g \in Genders, w \in WeightGoals, a \in ActivityLevels, t \in Timeframes}

\* the ends of the accepted ranges, a height with a decimal, and a target
\* weight whose protein grams, 2.5 * 1.8, lie halfway between two integers
CornerBodies ==
    {Body(120, g, w, h, "sedentary", 6) :
        g \in Genders, w \in {<<RInt(1), RInt(1)>>, <<RInt(1), RInt(80)>>, <<RInt(1), RInt(500)>>},
        h \in {RInt(50), RInt(300)}}
    \cup {Body(30, g, w, Decimal(2614, 10), "sedentary", 6) :
        g \in Genders, w \in {<<RInt(1), RInt(1)>>, <<RInt(1), RInt(80)>>, <<RInt(90), RInt(80)>>}}
    \cup {Body(1, "male", <<RInt(500), RInt(500)>>, RInt(300), "extremely_active", 1)}
    \cup {Body(30, "male", <<RInt(90), RInt(80)>>, RInt(180), "sedentary", 1)}
    \cup {Body(30, g, <<RInt(1), Decimal(25, 10)>>, RInt(180), "lightly_active", 6) : g \in Genders}

ValidBodies == CommonBodies \cup CornerBodies

ExampleProfile ==
    [age |-> 30, gender |-> "male", currentWeight |-> RInt(90), targetWeight |-> RInt(80),
     height |-> RInt(180), activityLevel |-> "moderately_active", timeframe |-> 6]

\* bodies that calculateGoalsSchema rejects: one field of the example out of
\* range, or missing
InvalidBodies ==
    {[ExampleProfile EXCEPT !.age = 0], [ExampleProfile EXCEPT !.gender = "other"],
     [ExampleProfile EXCEPT !.targetWeight = RInt(501)], [ExampleProfile EXCEPT !.height = RInt(49)],
     [ExampleProfile EXCEPT !.activityLevel = "couch_potato"], [ExampleProfile EXCEPT !.timeframe = 25],
     [f \in DOMAIN ExampleProfile \ {"timeframe"} |-> ExampleProfile[f]]}

Bodies == ValidBodies \cup InvalidBodies

(***************************************************************************)
(* server/storage.ts: the user profile of MemStorage                       *)
(***************************************************************************)
UserProfileInputs == {ExampleProfile}

PartialUserProfileInputs == {[targetWeight |-> RInt(85)]}

\* { ...profile, id: 1, timeframe: profile.timeframe || 6, createdAt: new Date(),
\*   updatedAt: new Date() }
NewUserProfile(profile, time) ==
    [f \in DOMAIN profile \cup {"id", "timeframe", "createdAt", "updatedAt"} |->
        CASE f = "id" -> 1
          [] f = "timeframe" -> IF "timeframe" \in DOMAIN profile /\ profile.timeframe # 0
                                THEN profile.timeframe ELSE 6
          [] f \in {"createdAt", "updatedAt"} -> time
          [] OTHER -> profile[f]]

\* { ...this.userProfileData, ...profile, updatedAt: new Date() }
MergedUserProfile(stored, profile, time) ==
    [f \in DOMAIN stored \cup DOMAIN profile \cup {"updatedAt"} |->
        IF f = "updatedAt" THEN time
        ELSE IF f \in DOMAIN profile THEN profile[f] ELSE stored[f]]

\* storage.createUserProfile(profile)
createUserProfile(profile) ==
    /\ userProfileData' = <<NewUserProfile(profile, now)>>
    /\ UNCHANGED <<raised, requestVars, clientVars, httpVars, dailyGoals, foodVars, exerciseVars,
                   calls, rounded>>

\* storage.updateUserProfile(profile): throws when no profile exists
updateUserProfile(profile) ==
    /\ IF userProfileData = << >>
       THEN /\ raised' = "No user profile exists"
            /\ UNCHANGED userProfileData
       ELSE /\ userProfileData' = <<MergedUserProfile(userProfileData[1], profile, now)>>
            /\ raised' = ""
    /\ UNCHANGED <<requestVars, clientVars, httpVars, dailyGoals, foodVars, exerciseVars,
                   calls, rounded>>

(***************************************************************************)
(* server/routes.ts: POST /api/profile, whose handler gives way to other   *)
(* requests at each await                                                  *)
(***************************************************************************)
\* at most this many requests to POST /api/profile are followed
MaxProfileRequests == 2

\* the clock is followed up to this time
MaxClock == 2

UserProfileColumns ==
    {"age", "gender", "currentWeight", "targetWeight", "height", "activityLevel", "timeframe"}

\* createInsertSchema(userProfile).omit({ id, createdAt, updatedAt }): the
\* columns without a default are required
insertUserProfileSchema(body) == UserProfileColumns \ {"timeframe"} \subseteq DOMAIN body

\* what parse returns: the keys of the schema, the others are stripped
ParsedUserProfile(body) == [f \in DOMAIN body \cap UserProfileColumns |-> body[f]]

\* the example; a new target weight sent with an id and a createdAt and
\* without a timeframe; and a body without an age
ProfileBodies ==
    {ExampleProfile,
     [f \in (DOMAIN ExampleProfile \ {"timeframe"}) \cup {"id", "createdAt"} |->
         CASE f = "id" -> 7
           [] f = "createdAt" -> 9
           [] f = "targetWeight" -> RInt(85)
           [] OTHER -> ExampleProfile[f]],
     [f \in DOMAIN ExampleProfile \ {"age"} |-> ExampleProfile[f]]}

\* time passes
Tick ==
    /\ now < MaxClock
    /\ now' = now + 1
    /\ UNCHANGED <<raised, profileRequests, clientVars, httpVars, storageVars, foodHistory,
                   exerciseHistory, calls, rounded>>

SaveFailed == [status |-> 500, json |-> [message |-> "Failed to save user profile"]]

\* a request arrives: the body is parsed and storage.getUserProfile() is
\* called, which reads the stored profile; a body that fails to parse is
\* answered 500
PostProfile(body) ==
    /\ Len(profileRequests) < MaxProfileRequests
    /\ profileRequests' =
           Append(profileRequests,
                  IF insertUserProfileSchema(body)
                  THEN [body |-> body, pc |-> "getUserProfile", existingProfile |-> userProfileData,
                        profile |-> << >>, error |-> "", res |-> << >>]
                  ELSE [body |-> body, pc |-> "done", existingProfile |-> << >>,
                        profile |-> << >>, error |-> "ZodError", res |-> <<SaveFailed>>])
    /\ UNCHANGED <<raised, now, clientVars, httpVars, storageVars, foodHistory, exerciseHistory,
                   calls, rounded>>

PostProfileSave_updatesWhenMissing(i) ==
    /\ i \in DOMAIN profileRequests
    /\ profileRequests[i].pc = "getUserProfile"
    /\ LET request == profileRequests[i]
           profileData == ParsedUserProfile(request.body)
       IN  IF request.existingProfile = << >>
           THEN IF userProfileData = << >>
                THEN /\ profileRequests' =
                            [profileRequests EXCEPT ![i].pc = "done",
                                                    ![i].error = "No user profile exists",
                                                    ![i].res = <<SaveFailed>>]
                     /\ UNCHANGED userProfileData
                ELSE /\ userProfileData' = <<MergedUserProfile(userProfileData[1], profileData, now)>>
                     /\ profileRequests' = [profileRequests EXCEPT ![i].pc = "updateUserProfile",
                                                                   ![i].profile = userProfileData']
           ELSE /\ userProfileData' = <<NewUserProfile(profileData, now)>>
                /\ profileRequests' = [profileRequests EXCEPT ![i].pc = "createUserProfile",
                                                              ![i].profile = userProfileData']
    /\ UNCHANGED <<raised, now, clientVars, httpVars, dailyGoals, foodVars, exerciseVars,
                   calls, rounded>>

\* the handler of request i resumes with existingProfile and calls
\* updateUserProfile or createUserProfile, which write the stored profile; an
\* error thrown by updateUserProfile is caught and answered 500
PostProfileSave(i) ==
    /\ i \in DOMAIN profileRequests
    /\ profileRequests[i].pc = "getUserProfile"
    /\ LET request == profileRequests[i]
           profileData == ParsedUserProfile(request.body)
       IN  IF request.existingProfile # << >>
           THEN IF userProfileData = << >>
                THEN /\ profileRequests' =
                            [profileRequests EXCEPT ![i].pc = "done",
                                                    ![i].error = "No user profile exists",
                                                    ![i].res = <<SaveFailed>>]
                     /\ UNCHANGED userProfileData
                ELSE /\ userProfileData' = <<MergedUserProfile(userProfileData[1], profileData, now)>>
                     /\ profileRequests' = [profileRequests EXCEPT ![i].pc = "updateUserProfile",
                                                                   ![i].profile = userProfileData']
           ELSE /\ userProfileData' = <<NewUserProfile(profileData, now)>>
                /\ profileRequests' = [profileRequests EXCEPT ![i].pc = "createUserProfile",
                                                              ![i].profile = userProfileData']
    /\ UNCHANGED <<raised, now, clientVars, httpVars, dailyGoals, foodVars, exerciseVars,
                   calls, rounded>>

\* the handler of request i resumes with the profile its call returned:
\* res.json(profile)
PostProfileRespond(i) ==
    /\ i \in DOMAIN profileRequests
    /\ profileRequests[i].pc \in {"updateUserProfile", "createUserProfile"}
    /\ profileRequests' =
           [profileRequests EXCEPT ![i].pc = "done",
                                   ![i].res = <<[status |-> 200,
                                                 json |-> profileRequests[i].profile[1]]>>]
    /\ UNCHANGED <<raised, now, clientVars, httpVars, storageVars, foodHistory, exerciseHistory,
                   calls, rounded>>

(***************************************************************************)
(* calculatePersonalizedGoals called directly                              *)
(***************************************************************************)
\* at most this many direct calls are followed
MaxCalls == 3

\* a profile one of whose results lies on an inexact half: the carbs of
\* 2925 kcal with 162 g of protein are 364.5 g
HalfwayProfile == Body(30, "female", <<RInt(80), RInt(90)>>, RInt(180), "moderately_active", 6)

\* the arguments of the direct calls: the typed profiles, and the example
\* with an activityLevel outside the five keys
CallRequests ==
    {ExampleProfile, HalfwayProfile,
     [ExampleProfile EXCEPT !.activityLevel = "sedentary"],
     [ExampleProfile EXCEPT !.activityLevel = "couch_potato"],
     [ExampleProfile EXCEPT !.activityLevel = "toString"]}

CallCalculatePersonalizedGoals_storing(request) ==
    /\ Len(calls) < MaxCalls
    /\ \E result \in calculatePersonalizedGoals(request) :
          /\ request \in DOMAIN rounded => result = rounded[request]
          /\ calls' = Append(calls, [request |-> request, result |-> result])
          /\ rounded' = IF Cardinality(calculatePersonalizedGoals(request)) > 1
                        THEN [r \in DOMAIN rounded \cup {request} |-> IF r = request THEN result ELSE rounded[r]]
                        ELSE rounded
          /\ dailyGoals' = updateDailyGoals(dailyGoals, [protein |-> result.protein])
    /\ UNCHANGED <<raised, requestVars, clientVars, httpVars, foodVars, exerciseVars,
                   userProfileData>>

\* calculatePersonalizedGoals(request): the call returns one of the results
\* the arithmetic can produce and reads or writes nothing but its argument.
\* The double an expression evaluates to is a function of its operands, so a
\* profile with an inexact half is rounded as it was in the earlier calls.
CallCalculatePersonalizedGoals(request) ==
    /\ Len(calls) < MaxCalls
    /\ \E result \in calculatePersonalizedGoals(request) :
          /\ request \in DOMAIN rounded => result = rounded[request]
          /\ calls' = Append(calls, [request |-> request, result |-> result])
          /\ rounded' = IF Cardinality(calculatePersonalizedGoals(request)) > 1
                        THEN [r \in DOMAIN rounded \cup {request} |-> IF r = request THEN result ELSE rounded[r]]
                        ELSE rounded
    /\ UNCHANGED <<raised, requestVars, clientVars, httpVars, dailyGoals, foodVars, exerciseVars,
                   userProfileData>>

(***************************************************************************)
(* server/routes.ts                                                        *)
(***************************************************************************)
\* calculatePersonalizedGoals is a pure function of the request: its results
\* for the accepted bodies, evaluated once
PersonalizedGoals == [b \in ValidBodies |-> calculatePersonalizedGoals(b)]

PostCalculateGoals_resetOnError(body) ==
    /\ reqRoute' = "POST /api/calculate-goals"
    /\ reqBody' = <<body>>
    /\ UNCHANGED <<raised, requestVars, clientVars, foodVars, exerciseVars, userProfileData,
                   calls, rounded>>
    /\ IF calculateGoalsSchema(body)
       THEN \E calculatedGoals \in PersonalizedGoals[body] :
                /\ dailyGoals' = updateDailyGoals(dailyGoals,
                                    [calories |-> calculatedGoals.calories,
                                     carbs |-> calculatedGoals.carbs,
                                     protein |-> calculatedGoals.protein,
                                     fat |-> calculatedGoals.fat])
                /\ res' = <<[status |-> 200, json |-> calculatedGoals]>>
                /\ handlerCalls' = <<"calculateGoalsSchema.parse", "calculatePersonalizedGoals",
                                     "storage.updateDailyGoals", "res.json">>
       ELSE /\ res' = <<[status |-> 500, json |-> [message |-> "Failed to calculate nutrition goals"]]>>
            /\ handlerCalls' = <<"calculateGoalsSchema.parse", "console.error",
                                 "storage.updateDailyGoals", "res.status.json">>
            /\ dailyGoals' = MemStorageDailyGoals

PostCalculateGoals_rejectsOneMonth(body) ==
    /\ reqRoute' = "POST /api/calculate-goals"
    /\ reqBody' = <<body>>
    /\ UNCHANGED <<raised, requestVars, clientVars, foodVars, exerciseVars, userProfileData,
                   calls, rounded>>
    /\ IF calculateGoalsSchema(body) /\ body.timeframe > 1
       THEN \E calculatedGoals \in PersonalizedGoals[body] :
                /\ dailyGoals' = updateDailyGoals(dailyGoals,
                                    [calories |-> calculatedGoals.calories,
                                     carbs |-> calculatedGoals.carbs,
                                     protein |-> calculatedGoals.protein,
                                     fat |-> calculatedGoals.fat])
                /\ res' = <<[status |-> 200, json |-> calculatedGoals]>>
                /\ handlerCalls' = <<"calculateGoalsSchema.parse", "calculatePersonalizedGoals",
                                     "storage.updateDailyGoals", "res.json">>
       ELSE /\ res' = <<[status |-> 500, json |-> [message |-> "Failed to calculate nutrition goals"]]>>
            /\ handlerCalls' = <<"calculateGoalsSchema.parse", "console.error", "res.status.json">>
            /\ UNCHANGED dailyGoals

\* app.post("/api/calculate-goals"): parse, calculate, store, respond; a
\* failed parse throws into the catch block, which answers 500
PostCalculateGoals(body) ==
    /\ reqRoute' = "POST /api/calculate-goals"
    /\ reqBody' = <<body>>
    /\ UNCHANGED <<raised, requestVars, clientVars, foodVars, exerciseVars, userProfileData,
                   calls, rounded>>
    /\ IF calculateGoalsSchema(body)
       THEN \E calculatedGoals \in PersonalizedGoals[body] :
                /\ dailyGoals' = updateDailyGoals(dailyGoals,
                                    [calories |-> calculatedGoals.calories,
                                     carbs |-> calculatedGoals.carbs,
                                     protein |-> calculatedGoals.protein,
                                     fat |-> calculatedGoals.fat])
                /\ res' = <<[status |-> 200, json |-> calculatedGoals]>>
                /\ handlerCalls' = <<"calculateGoalsSchema.parse", "calculatePersonalizedGoals",
                                     "storage.updateDailyGoals", "res.json">>
       ELSE /\ res' = <<[status |-> 500, json |-> [message |-> "Failed to calculate nutrition goals"]]>>
            /\ handlerCalls' = <<"calculateGoalsSchema.parse", "console.error", "res.status.json">>
            /\ UNCHANGED dailyGoals

\* app.get("/api/goals"): the stored goals are the response
GetGoals ==
    /\ reqRoute' = "GET /api/goals"
    /\ reqBody' = << >>
    /\ res' = <<[status |-> 200, json |-> dailyGoals]>>
    /\ handlerCalls' = <<"storage.getDailyGoals", "res.json">>
    /\ UNCHANGED <<raised, requestVars, clientVars, dailyGoals, foodVars, exerciseVars,
                   userProfileData, calls, rounded>>

\* the values of the body of a PUT /api/goals carry their JSON type
JsonNumber(x) == <<"number", x>>

JsonString(x) == <<"string", x>>

GoalColumns == {"calories", "carbs", "protein", "fat"}

\* createInsertSchema(dailyGoals).omit({ id: true }): the four columns have
\* defaults, so each is optional, and a number when present
insertDailyGoalsSchema(body) == \A f \in DOMAIN body \cap GoalColumns : body[f][1] = "number"

\* what parse returns: the keys of the schema, the others are stripped
ParsedDailyGoals(body) == [f \in DOMAIN body \cap GoalColumns |-> body[f][2]]

PutGoalsBodies ==
    {[calories |-> JsonNumber(1800), carbs |-> JsonNumber(200), protein |-> JsonNumber(130),
      fat |-> JsonNumber(60)],
     [calories |-> JsonNumber(2200)],
     [id |-> JsonNumber(7), fat |-> JsonNumber(70)],
     [calories |-> JsonString("lots")]}

\* app.put("/api/goals"): parse, store, respond with the stored goals
PutGoals(body) ==
    /\ reqRoute' = "PUT /api/goals"
    /\ reqBody' = <<body>>
    /\ UNCHANGED <<raised, requestVars, clientVars, foodVars, exerciseVars, userProfileData,
                   calls, rounded>>
    /\ IF insertDailyGoalsSchema(body)
       THEN /\ dailyGoals' = updateDailyGoals(dailyGoals, ParsedDailyGoals(body))
            /\ res' = <<[status |-> 200, json |-> dailyGoals']>>
            /\ handlerCalls' = <<"insertDailyGoalsSchema.parse", "storage.updateDailyGoals", "res.json">>
       ELSE /\ res' = <<[status |-> 500, json |-> [message |-> "Failed to update daily goals"]]>>
            /\ handlerCalls' = <<"insertDailyGoalsSchema.parse", "console.error", "res.status.json">>
            /\ UNCHANGED dailyGoals

(***************************************************************************)
(* client/src/components/profile-setup.tsx                                 *)
(***************************************************************************)
getGoalType(current, target) ==
    IF RLess(current, target) THEN "gain"
    ELSE IF RLess(target, current) THEN "lose"
    ELSE "maintain"

\* what the form hands to onSubmit: form.handleSubmit validates the values
\* with zodResolver(calculateGoalsSchema) first
WizardData == {ExampleProfile, HalfwayProfile}

\* saveProfileMutation: the profile passed to localStore.setUserProfile
WizardProfile(data, time) ==
    [id |-> 1, age |-> data.age, gender |-> data.gender,
     currentWeight |-> data.currentWeight, targetWeight |-> data.targetWeight,
     height |-> data.height, activityLevel |-> data.activityLevel,
     timeframe |-> data.timeframe, createdAt |-> time, updatedAt |-> time]

\* calculateGoalsMutation: the goals passed to localStore.setDailyGoals
WizardGoals(results) ==
    [id |-> 1, calories |-> results.calories, carbs |-> results.carbs,
     protein |-> results.protein, fat |-> results.fat]

\* NutritionTracker renders ProfileSetup instead of the dashboard
ShowsWizard == showProfileSetup \/ profileQuery.data = << >>

\* ProfileSetup renders the results view instead of the form
ShowsResults == step = 3 /\ calculatedResults # << >>

\* onSubmit: the first submit only moves to step 2; a later one runs
\* saveProfileMutation, which hands the profile to localStore.setUserProfile
\* (a write that window.localStorage refuses is logged and otherwise
\* ignored) and resolves, and then calculateGoalsMutation, which sends the
\* request.  The submit button is disabled while a mutation is pending.
WizardSubmit(data) ==
    /\ ShowsWizard
    /\ ~ShowsResults
    /\ pending = << >>
    /\ UNCHANGED <<raised, requestVars, storageVars, foodHistory, exerciseHistory,
                   calculatedResults, showProfileSetup, profileQuery, completed,
                   calls, rounded>>
    /\ IF step = 1
       THEN /\ step' = 2
            /\ UNCHANGED <<httpVars, pending, localStore>>
       ELSE /\ \E stored \in BOOLEAN :
                /\ localStore' = IF stored
                                 THEN [localStore EXCEPT !.userProfile = <<WizardProfile(data, now)>>]
                                 ELSE localStore
                /\ pending' = <<[data |-> data, stored |-> stored]>>
            /\ reqRoute' = "POST /api/calculate-goals"
            /\ reqBody' = <<data>>
            /\ res' = << >>
            /\ handlerCalls' = << >>
            /\ UNCHANGED step

\* the server handles the request the wizard sent
WizardRequestHandled ==
    /\ pending # << >>
    /\ res = << >>
    /\ PostCalculateGoals(pending[1].data)

\* the response arrives with status 200: calculateGoalsMutation stores the
\* goals (again, a refused write is ignored), its onSuccess sets
\* calculatedResults, and onSubmit goes on to setStep(3)
WizardRequestSucceeds ==
    /\ pending # << >>
    /\ res # << >>
    /\ res[1].status = 200
    /\ \E stored \in BOOLEAN :
           localStore' = IF stored
                         THEN [localStore EXCEPT !.dailyGoals = <<WizardGoals(res[1].json)>>]
                         ELSE localStore
    /\ calculatedResults' = <<res[1].json>>
    /\ step' = 3
    /\ pending' = << >>
    /\ UNCHANGED <<httpVars, raised, requestVars, storageVars, foodHistory, exerciseHistory,
                   showProfileSetup, profileQuery, completed, calls, rounded>>

\* a wizard that goes on to step 3 whether or not the calculation succeeded
WizardRequestFails_advancing ==
    /\ pending # << >>
    /\ pending' = << >>
    /\ step' = 3
    /\ UNCHANGED <<httpVars, raised, requestVars, storageVars, foodHistory, exerciseHistory,
                   calculatedResults, localStore, showProfileSetup, profileQuery,
                   completed, calls, rounded>>

\* apiRequest rejects (the request or the response is lost, or the status is
\* not 200): calculateGoalsMutation rejects and onSubmit catches the error
WizardRequestFails ==
    /\ pending # << >>
    /\ pending' = << >>
    /\ UNCHANGED <<httpVars, raised, requestVars, storageVars, foodHistory, exerciseHistory,
                   step, calculatedResults, localStore, showProfileSetup, profileQuery,
                   completed, calls, rounded>>

\* the Back button of step 2, which stays enabled while a mutation is pending
WizardBack ==
    /\ ShowsWizard
    /\ ~ShowsResults
    /\ step = 2
    /\ step' = 1
    /\ UNCHANGED <<httpVars, raised, requestVars, storageVars, foodHistory, exerciseHistory,
                   calculatedResults, pending, localStore, showProfileSetup, profileQuery,
                   completed, calls, rounded>>

\* handleComplete, the button of the results view: onComplete() is
\* NutritionTracker's () => setShowProfileSetup(false)
HandleComplete ==
    /\ ShowsWizard
    /\ ShowsResults
    /\ showProfileSetup' = FALSE
    /\ completed' = TRUE
    /\ UNCHANGED <<httpVars, raised, requestVars, storageVars, foodHistory, exerciseHistory,
                   step, calculatedResults, pending, localStore, profileQuery, calls, rounded>>

\* app.get("/api/profile"): res.json(profile) for the profile of
\* storage.getUserProfile(), << >> when it is undefined
GetProfile == userProfileData

\* NutritionTracker's useQuery ['/api/profile'] fetches: the query has no
\* queryFn of its own, and the default one requests the path that is the
\* query key; the answer becomes the data of the query
FetchProfile ==
    /\ profileQuery' = [fetched |-> TRUE, data |-> GetProfile,
                        afterSave |-> localStore.userProfile # << >>]
    /\ UNCHANGED <<httpVars, raised, requestVars, storageVars, foodHistory, exerciseHistory,
                   step, calculatedResults, pending, localStore, showProfileSetup,
                   completed, calls, rounded>>

Init ==
    /\ reqRoute = ""
    /\ reqBody = << >>
    /\ res = << >>
    /\ handlerCalls = << >>
    /\ dailyGoals = MemStorageDailyGoals
    /\ foodEntries = << >>
    /\ currentFoodEntryId = 1
    /\ exerciseEntries = << >>
    /\ currentExerciseEntryId = 1
    /\ foodHistory = NoHistory
    /\ exerciseHistory = NoHistory
    /\ userProfileData = << >>
    /\ raised = ""
    /\ now = 0
    /\ profileRequests = << >>
    /\ step = 1
    /\ calculatedResults = << >>
    /\ pending = << >>
    /\ localStore = [userProfile |-> << >>, dailyGoals |-> << >>]
    /\ showProfileSetup = FALSE
    /\ profileQuery = [fetched |-> FALSE, data |-> << >>, afterSave |-> FALSE]
    /\ completed = FALSE
    /\ calls = << >>
    /\ rounded = << >>

Next == \E body \in Bodies : PostCalculateGoals(body)

Spec == Init /\ [][Next]_vars

\* the calculator and the storage called directly
CalculatorNext ==
    \/ \E request \in CallRequests : CallCalculatePersonalizedGoals(request)
    \/ \E goals \in DailyGoalsInputs : UpdateDailyGoals(goals)
    \/ \E entry \in FoodEntryInputs : createFoodEntry(entry)
    \/ \E id \in 1..MaxFoodEntryId : deleteFoodEntry(id)
    \/ \E profile \in UserProfileInputs : createUserProfile(profile)
    \/ \E profile \in PartialUserProfileInputs : updateUserProfile(profile)

CalculatorSpec == Init /\ [][CalculatorNext]_vars

(***************************************************************************)
(* server/storage.ts: the entries of MemStorage and its date range         *)
(***************************************************************************)
\* Array.from(allDates).sort(): the strings in ascending order
RECURSIVE SortStrings(_)
SortStrings(strings) ==
    IF strings = {} THEN << >>
    ELSE LET first == CHOOSE s \in strings : \A t \in strings : StringLeq(s, t)
         IN  <<first>> \o SortStrings(strings \ {first})

getDateRange_foodOnly(startDate, endDate) ==
    LET foodDates == {foodEntries[id].date : id \in DOMAIN foodEntries}
        InRange(date) == StringLeq(startDate, date) /\ StringLeq(date, endDate)
        allDates == {date \in foodDates : InRange(date)}
    IN  SortStrings(allDates)

\* the dates of the food and of the exercise entries that lie in the range
getDateRange(startDate, endDate) ==
    LET foodDates == {foodEntries[id].date : id \in DOMAIN foodEntries}
        exerciseDates == {exerciseEntries[id].date : id \in DOMAIN exerciseEntries}
        InRange(date) == StringLeq(startDate, date) /\ StringLeq(date, endDate)
        allDates == {date \in foodDates : InRange(date)} \cup {date \in exerciseDates : InRange(date)}
    IN  SortStrings(allDates)

\* the start and end of the ranges asked for: the dates, and a year alone
Year2025 == <<"2", "0", "2", "5">>

RangeEnds == {Dec31, Jan01, Jan02, Jan10, Year2025}

\* the entries passed to the storage, on three and on two dates
StorageFoodEntries ==
    {[description |-> "apple", calories |-> 95, carbs |-> 25, protein |-> 0, fat |-> 0, date |-> Jan01],
     [description |-> "apple", calories |-> 95, carbs |-> 25, protein |-> 0, fat |-> 0, date |-> Jan10],
     [description |-> "rice", calories |-> 200, carbs |-> 45, protein |-> 4, fat |-> 0, date |-> Dec31]}

StorageExerciseEntries ==
    {[activity |-> "running", caloriesBurned |-> 300, duration |-> 30, date |-> Jan01],
     [activity |-> "running", caloriesBurned |-> 300, duration |-> 30, date |-> Jan02]}

StorageNext ==
    \/ \E entry \in StorageFoodEntries : createFoodEntry(entry)
    \/ \E id \in 1..MaxFoodEntryId : deleteFoodEntry(id)
    \/ \E entry \in StorageExerciseEntries : createExerciseEntry(entry)
    \/ \E id \in 1..MaxExerciseEntryId : deleteExerciseEntry(id)

StorageSpec == Init /\ [][StorageNext]_vars

\* concurrent requests to POST /api/profile, direct calls of
\* updateUserProfile, and the clock
ProfileNext ==
    \/ \E body \in ProfileBodies : PostProfile(body)
    \/ \E i \in 1..MaxProfileRequests : PostProfileSave(i)
    \/ \E i \in 1..MaxProfileRequests : PostProfileRespond(i)
    \/ \E profile \in PartialUserProfileInputs : updateUserProfile(profile)
    \/ Tick

ProfileSpec == Init /\ [][ProfileNext]_vars

\* a first-time user in front of the profile wizard, the server, and the
\* tracker's profile query
WizardNext ==
    \/ \E data \in WizardData : WizardSubmit(data)
    \/ WizardRequestHandled
    \/ WizardRequestSucceeds
    \/ WizardRequestFails
    \/ WizardBack
    \/ HandleComplete
    \/ FetchProfile

WizardSpec == Init /\ [][WizardNext]_vars

(***************************************************************************)
(* The goals routes of server/routes.ts, with the storage calls of the     *)
(* entry and profile routes                                                *)
(***************************************************************************)
ApiBodies ==
    {ExampleProfile, HalfwayProfile, [ExampleProfile EXCEPT !.timeframe = 25]}

ApiNext ==
    \/ \E body \in ApiBodies : PostCalculateGoals(body)
    \/ GetGoals
    \/ \E body \in PutGoalsBodies : PutGoals(body)
    \/ \E entry \in FoodEntryInputs : createFoodEntry(entry)
    \/ \E id \in 1..MaxFoodEntryId : deleteFoodEntry(id)
    \/ \E entry \in ExerciseEntryInputs : createExerciseEntry(entry)
    \/ \E profile \in UserProfileInputs : createUserProfile(profile)

ApiSpec == Init /\ [][ApiNext]_vars

(***************************************************************************)
(* Properties of the goal calculator                                       *)
(***************************************************************************)
\* the last request was answered 200 with a CalculatedGoals object
\* the functions a handler called
CalledBy(handler) == {handler[i] : i \in DOMAIN handler}

Calculated == reqRoute = "POST /api/calculate-goals" /\ res # << >> /\ res[1].status = 200

Profile == reqBody[1]

Goals == res[1].json

FloorOf(gender) == IF gender = "female" THEN 1200 ELSE 1500

Larger(i, j) == IF i > j THEN i ELSE j

\* (targetWeight - currentWeight) / (timeframe * 4.33)
DesiredRate(p) == RDiv(RSub(p.targetWeight, p.currentWeight), RMul(RInt(p.timeframe), R(433, 100)))

\* C1: every calculated result has calories >= 1200 for a female profile and
\* calories >= 1500 for a male profile
C1_CalorieFloor ==
    Calculated =>
        /\ Profile.gender = "female" => Goals.calories >= 1200
        /\ Profile.gender = "male" => Goals.calories >= 1500

\* a male profile whose calories sit exactly on the 1500 floor
C1_Witness == Calculated /\ Profile.gender = "male" /\ Goals.calories = 1500

\* C2: for every profile within the schema ranges the returned bmr and tdee
\* are strictly positive
C2_BmrTdeePositive == Calculated => Goals.bmr > 0 /\ Goals.tdee > 0

\* C3 as stated: the example profile yields calorieAdjustment -429 and
\* calories 2485
C3_ExampleCaloriesAsStated ==
    (Calculated /\ Profile = ExampleProfile) =>
        Goals.calorieAdjustment = 0 - 429 /\ Goals.calories = 2485

\* C3 amended: the example profile yields calorieAdjustment -423 and
\* calories 2491 (with bmr 1880 and tdee 2914)
C3_ExampleCalories ==
    (Calculated /\ Profile = ExampleProfile) =>
        /\ Goals.calorieAdjustment = 0 - 423
        /\ Goals.calories = 2491
        /\ Goals.bmr = 1880 /\ Goals.tdee = 2914

C3_Witness == Calculated /\ Profile = ExampleProfile /\ Goals.calories > 1500

\* C4 as stated: the example profile yields protein 160, fat 77, carbs 128
C4_ExampleMacrosAsStated ==
    (Calculated /\ Profile = ExampleProfile) =>
        Goals.protein = 160 /\ Goals.fat = 77 /\ Goals.carbs = 128

\* C4 amended: the example profile yields protein 160, fat 77 and carbs 288
C4_ExampleMacros ==
    (Calculated /\ Profile = ExampleProfile) =>
        Goals.protein = 160 /\ Goals.fat = 77 /\ Goals.carbs = 288

C4_Witness == Calculated /\ Profile = ExampleProfile /\ Goals.protein = 160

\* the desired rate lies inside the band of its direction
InBand(p) ==
    LET desired == DesiredRate(p)
    IN  IF RLess(p.targetWeight, p.currentWeight)
        THEN RLeq(R(0 - 1, 1), desired) /\ RLeq(desired, R(0 - 25, 100))
        ELSE RLeq(R(25, 100), desired) /\ RLeq(desired, R(5, 10))

\* C5: weightChangePerWeek lies in [-1.0, -0.25] for a loss goal and in
\* [0.25, 0.5] for a gain goal, and a desired rate already inside the band is
\* returned unchanged up to its rounding to 2 decimals
C5_RateClamped ==
    Calculated =>
        LET w == Goals.weightChangePerWeek
        IN  /\ RLess(Profile.targetWeight, Profile.currentWeight) =>
                   RLeq(R(0 - 1, 1), w) /\ RLeq(w, R(0 - 25, 100))
            /\ RLess(Profile.currentWeight, Profile.targetWeight) =>
                   RLeq(R(25, 100), w) /\ RLeq(w, R(5, 10))
            /\ InBand(Profile) => RLeq(MathAbs(RSub(w, DesiredRate(Profile))), R(5, 1000))

\* a loss goal whose desired rate, -10 / 25.98, is inside the band
C5_Witness ==
    /\ Calculated /\ InBand(Profile)
    /\ RLess(Profile.targetWeight, Profile.currentWeight)
    /\ REq(Goals.weightChangePerWeek, R(0 - 38, 100))

\* C6: when targetWeight differs from currentWeight, weightChangePerWeek is
\* non-zero and has the sign of targetWeight - currentWeight
C6_RateSign ==
    Calculated =>
        /\ RLess(Profile.targetWeight, Profile.currentWeight) => Goals.weightChangePerWeek.n < 0
        /\ RLess(Profile.currentWeight, Profile.targetWeight) => Goals.weightChangePerWeek.n > 0

\* a loss goal too slow for its timeframe, raised to the minimum rate
C6_Witness ==
    /\ Calculated /\ ~InBand(Profile)
    /\ RLess(Profile.targetWeight, Profile.currentWeight)
    /\ REq(Goals.weightChangePerWeek, R(0 - 25, 100))

\* C7 as stated: when targetWeight equals currentWeight (the wizard's
\* 'maintain') the result has weightChangePerWeek 0.25, calorieAdjustment 275
\* and calories = max(tdee + 275, floor)
C7_MaintainAsStated ==
    (Calculated /\ REq(Profile.targetWeight, Profile.currentWeight)) =>
        /\ getGoalType(Profile.currentWeight, Profile.targetWeight) = "maintain"
        /\ REq(Goals.weightChangePerWeek, R(25, 100))
        /\ Goals.calorieAdjustment = 275
        /\ Goals.calories = Larger(Goals.tdee + 275, FloorOf(Profile.gender))

\* C7 amended: when targetWeight equals currentWeight (the wizard's
\* 'maintain') the result has weightChangePerWeek 0.25, calorieAdjustment 275
\* and calories = max(round(unrounded tdee + 275), floor), which over the
\* reported tdee is max(tdee + 275, floor) or max(tdee + 276, floor)
C7_Maintain ==
    (Calculated /\ REq(Profile.targetWeight, Profile.currentWeight)) =>
        /\ getGoalType(Profile.currentWeight, Profile.targetWeight) = "maintain"
        /\ REq(Goals.weightChangePerWeek, R(25, 100))
        /\ Goals.calorieAdjustment = 275
        /\ Goals.calories \in {Larger(Goals.tdee + 275, FloorOf(Profile.gender)),
                               Larger(Goals.tdee + 276, FloorOf(Profile.gender))}

\* a maintain profile above the floor
C7_Witness ==
    /\ Calculated /\ REq(Profile.targetWeight, Profile.currentWeight)
    /\ Goals.calories = Goals.tdee + 275 /\ Goals.calories > FloorOf(Profile.gender)

\* C8 as stated: over the reported integers,
\* calories = max(tdee + calorieAdjustment, floor)
C8_CaloriesAsStated ==
    Calculated =>
        Goals.calories = Larger(Goals.tdee + Goals.calorieAdjustment, FloorOf(Profile.gender))

\* C8 amended: calories = max(round(unrounded tdee + calorieAdjustment),
\* floor); over the reported integers this is max(tdee + calorieAdjustment,
\* floor) or one more, so calories - (tdee + calorieAdjustment) is 0 or 1
\* when the floor is not binding and positive when it binds strictly
C8_Calories ==
    Calculated =>
        LET sum == Goals.tdee + Goals.calorieAdjustment
            floor == FloorOf(Profile.gender)
        IN  /\ Goals.calories \in {Larger(sum, floor), Larger(sum + 1, floor)}
            /\ Goals.calories > floor => Goals.calories - sum \in {0, 1}
            /\ sum < floor => Goals.calories = floor

\* the floor binds strictly: calories exceed tdee + calorieAdjustment
C8_Witness ==
    /\ Calculated
    /\ Goals.calories = FloorOf(Profile.gender)
    /\ Goals.calories > Goals.tdee + Goals.calorieAdjustment + 1

\* the floor was applied to the last result
FloorApplied == Calculated /\ Goals.tdee + Goals.calorieAdjustment < FloorOf(Profile.gender)

SameGoal(p, q) ==
    /\ REq(p.currentWeight, q.currentWeight) /\ REq(p.targetWeight, q.targetWeight)
    /\ p.timeframe = q.timeframe

\* C9: two calculations whose profiles agree on currentWeight, targetWeight
\* and timeframe report the same weightChangePerWeek and calorieAdjustment,
\* whatever the other fields and whether or not the floor was applied
C9_RateIgnoresFloor ==
    [][(Calculated /\ Calculated' /\ SameGoal(Profile, Profile')) =>
          /\ REq(Goals'.weightChangePerWeek, Goals.weightChangePerWeek)
          /\ Goals'.calorieAdjustment = Goals.calorieAdjustment]_vars

\* a floored female result that still reports the full gain adjustment
C9_Witness ==
    /\ FloorApplied /\ Profile.gender = "female"
    /\ Goals.calorieAdjustment = 550 /\ REq(Goals.weightChangePerWeek, R(5, 10))

\* C10: whenever tdee + calorieAdjustment is below the floor, calories is
\* exactly the floor, fat is round(floor * 0.28 / 9) (37 g female, 47 g male)
\* and carbs is the rounded remainder of the floor calories
C10_MacrosFromFloor ==
    FloorApplied =>
        LET floor == FloorOf(Profile.gender)
            proteinPerKg == IF RLess(Profile.targetWeight, Profile.currentWeight)
                            THEN RInt(2) ELSE R(18, 10)
            remaining == RSub(RMul(RInt(floor), R(72, 100)),
                              RMul(RInt(4), RMul(Profile.targetWeight, proteinPerKg)))
        IN  /\ Goals.calories = floor
            /\ Goals.fat = IF Profile.gender = "female" THEN 37 ELSE 47
            /\ Goals.fat = RoundHalfUp(R(floor * 28, 900))
            /\ Goals.carbs \in MathRound(MathMax(RDiv(remaining, RInt(4)), RInt(0)))

\* a female result floored from a negative target
C10_Witness ==
    /\ FloorApplied /\ Profile.gender = "female"
    /\ Goals.tdee + Goals.calorieAdjustment < 0
    /\ Goals.calories = 1200 /\ Goals.fat = 37 /\ Goals.carbs > 0

\* grams of protein per kg of target weight: 2.0 for a loss goal, else 1.8
ProteinPerKg(p) == IF RLess(p.targetWeight, p.currentWeight) THEN RInt(2) ELSE R(18, 10)

\* (4 * proteinGrams + 0.28 * calories) - calories for protein grams proteinGrams
MacroExcess(proteinGrams, calories) ==
    RSub(RAdd(RMul(RInt(4), proteinGrams), RMul(RInt(calories), R(28, 100))), RInt(calories))

\* C11: carbs >= 0 for every calculated result, and carbs is exactly 0
\* whenever protein calories plus fat calories exceed the final calories,
\* whether the protein calories are taken from the unrounded or from the
\* returned protein grams
C11_CarbsNonNegative ==
    Calculated =>
        /\ Goals.carbs >= 0
        /\ MacroExcess(RMul(Profile.targetWeight, ProteinPerKg(Profile)), Goals.calories).n > 0
               => Goals.carbs = 0
        /\ MacroExcess(RInt(Goals.protein), Goals.calories).n > 0 => Goals.carbs = 0

\* a target of 500 kg on the male floor: 900 g of protein are 3600 kcal
C11_Witness ==
    /\ FloorApplied /\ REq(Profile.targetWeight, RInt(500))
    /\ Goals.calories = 1500 /\ Goals.protein = 900
    /\ MacroExcess(RInt(Goals.protein), Goals.calories).n > 0
    /\ Goals.carbs = 0

\* C12: when the calorie floor is not binding, fat = round(calories * 0.28 / 9)
\* and fat * 9 differs from 0.28 * calories by at most 4.5 kcal
C12_FatShare ==
    (Calculated /\ Goals.calories > FloorOf(Profile.gender)) =>
        /\ Goals.fat = RoundHalfUp(R(Goals.calories * 28, 900))
        /\ RLeq(MathAbs(RSub(RInt(Goals.fat * 9), R(Goals.calories * 28, 100))), R(45, 10))

\* the example profile: 2491 kcal, 77 g of fat, 693 kcal against 697.48
C12_Witness ==
    /\ Calculated /\ Profile = ExampleProfile
    /\ Goals.calories = 2491 /\ Goals.calories > FloorOf(Profile.gender)
    /\ Goals.fat = 77

\* C13: protein = round(targetWeight * 2.0) when targetWeight < currentWeight
\* and round(targetWeight * 1.8) otherwise, equal weights included; it is a
\* function of targetWeight and of that comparison alone, whatever the other
\* fields, the calorie floor and the clamped weekly change
C13_Protein ==
    Calculated =>
        Goals.protein = RoundHalfUp(RMul(Profile.targetWeight,
                                         IF RLess(Profile.targetWeight, Profile.currentWeight)
                                         THEN RInt(2) ELSE R(18, 10)))

\* equal weights on the floor, where the clamped change is a gain of 0.25:
\* protein is round(1 * 1.8) = 2
C13_Witness ==
    /\ FloorApplied /\ REq(Profile.targetWeight, Profile.currentWeight)
    /\ REq(Goals.weightChangePerWeek, R(25, 100)) /\ Goals.protein = 2

\* round(max(calories - proteinCalories - 0.28 * calories, 0) / 4), as the
\* set of integers the rounding of the double can yield
CarbsOf(calories, proteinCalories) ==
    MathRound(MathMax(RDiv(RSub(RSub(RInt(calories), proteinCalories),
                                RMul(RInt(calories), Decimal(28, 100))), RInt(4)), RInt(0)))

\* C14 as stated: carbs = round(max(calories - proteinCalories - fatCalories,
\* 0) / 4) with proteinCalories = 4 * protein, protein being the rounded
\* grams that are returned, and fatCalories = 0.28 * calories
C14_CarbsAsStated ==
    Calculated => Goals.carbs \in CarbsOf(Goals.calories, RInt(4 * Goals.protein))

\* C14 amended: carbs = round(max(calories - proteinCalories - fatCalories,
\* 0) / 4) with proteinCalories = 4 * targetWeight * proteinPerKg, the protein
\* grams before their rounding, and fatCalories = 0.28 * calories of the
\* final (floored) integer calories
C14_Carbs ==
    Calculated =>
        Goals.carbs \in CarbsOf(Goals.calories,
                                RMul(RInt(4), RMul(Profile.targetWeight, ProteinPerKg(Profile))))

\* a target of 2.5 kg: 4.5 g of protein are returned as 5 g, and carbs is
\* round((1636 - 18 - 458.08) / 4) = 290, not round((1636 - 20 - 458.08) / 4)
C14_Witness ==
    /\ Calculated /\ REq(Profile.targetWeight, R(25, 10)) /\ Profile.gender = "male"
    /\ Goals.calories = 1636 /\ Goals.protein = 5 /\ Goals.carbs = 290

\* 10 * currentWeight + 6.25 * height - 5 * age, + 5 (male) or - 161 (female)
BmrOf(p) ==
    RAdd(RSub(RAdd(RMul(RInt(10), p.currentWeight), RMul(R(625, 100), p.height)), RInt(5 * p.age)),
         RInt(IF p.gender = "male" THEN 5 ELSE 0 - 161))

\* C15: the returned bmr is round(10 * currentWeight + 6.25 * height - 5 * age
\* + 5) for male and round(10 * currentWeight + 6.25 * height - 5 * age - 161)
\* for female, of currentWeight and never of targetWeight; it is 1880 for the
\* example profile
C15_Bmr ==
    Calculated =>
        /\ Goals.bmr \in MathRound(BmrOf(Profile))
        /\ 2 * Abs(Goals.bmr * BmrOf(Profile).d - BmrOf(Profile).n) <= BmrOf(Profile).d
        /\ Profile = ExampleProfile => Goals.bmr = 1880

\* 90 kg aiming at 80 kg, 261.4 cm: 900 + 1633.75 - 150 + 5 = 2388.75
C15_Witness ==
    /\ Calculated /\ Profile.gender = "male"
    /\ REq(Profile.currentWeight, RInt(90)) /\ REq(Profile.targetWeight, RInt(80))
    /\ REq(Profile.height, R(2614, 10)) /\ Goals.bmr = 2389

\* the multiplier the spec gives for each activity level
Multiplier(activityLevel) ==
    CASE activityLevel = "sedentary" -> R(12, 10)
      [] activityLevel = "lightly_active" -> R(1375, 1000)
      [] activityLevel = "moderately_active" -> R(155, 100)
      [] activityLevel = "very_active" -> R(1725, 1000)
      [] activityLevel = "extremely_active" -> R(19, 10)

\* C16: the returned tdee is round(unrounded bmr * m), m being 1.2, 1.375,
\* 1.55, 1.725 or 1.9 by activity level
C16_Tdee ==
    Calculated =>
        LET tdee == RMul(BmrOf(Profile), Multiplier(Profile.activityLevel))
        IN  /\ Goals.tdee \in MathRound(tdee)
            /\ 2 * Abs(Goals.tdee * tdee.d - tdee.n) <= tdee.d

\* a bmr of 1332.75, returned as 1333: tdee is round(1599.3) = 1599, not
\* round(1333 * 1.2) = 1600
C16_Witness ==
    /\ Calculated /\ Profile.gender = "female" /\ Profile.activityLevel = "sedentary"
    /\ REq(BmrOf(Profile), R(133275, 100))
    /\ Goals.bmr = 1333 /\ Goals.tdee = 1599

\* C17: a call with an activityLevel that is none of the five known keys
\* does not fail and returns exactly the result of the same profile with
\* activityLevel = sedentary
C17_UnknownActivityAsSedentary ==
    \A i \in 1..Len(calls) :
        calls[i].request.activityLevel \notin ActivityLevels =>
            calls[i].result \in
                calculatePersonalizedGoals([calls[i].request EXCEPT !.activityLevel = "sedentary"])

\* the desired weekly change clamped to the band of its direction
ClampedRate(p) ==
    LET desired == MathAbs(DesiredRate(p))
    IN  IF RLess(p.targetWeight, p.currentWeight)
        THEN RNeg(MathMin(MathMax(desired, R(25, 100)), RInt(1)))
        ELSE MathMin(MathMax(desired, R(25, 100)), R(5, 10))

\* C18: calorieAdjustment = round(w * 7700 / 7), w being the clamped weekly
\* change before its rounding to 2 decimals and round the nearest integer,
\* halves toward +infinity; it lies in [-1100, -275] for a loss goal and in
\* [275, 550] otherwise
C18_Adjustment ==
    Calculated =>
        /\ Goals.calorieAdjustment = RoundHalfUp(RDiv(RMul(ClampedRate(Profile), RInt(7700)), RInt(7)))
        /\ IF RLess(Profile.targetWeight, Profile.currentWeight)
           THEN Goals.calorieAdjustment >= 0 - 1100 /\ Goals.calorieAdjustment <= 0 - 275
           ELSE Goals.calorieAdjustment >= 275 /\ Goals.calorieAdjustment <= 550

\* the example profile: w = -10 / 25.98 gives -423, while its rounding
\* -0.38, which is reported, would give -418
C18_Witness ==
    /\ Calculated /\ Profile = ExampleProfile
    /\ REq(Goals.weightChangePerWeek, R(0 - 38, 100))
    /\ Goals.calorieAdjustment = 0 - 423

C20_InvalidBodyAnswered400 ==
    (res # << >> /\ ~calculateGoalsSchema(reqBody[1])) =>
        res[1].status = 400 /\ res[1].status < 500

(***************************************************************************)
(* C21: a request to POST /api/calculate-goals whose body fails            *)
(* calculateGoalsSchema never reaches calculatePersonalizedGoals and       *)
(* leaves the stored daily goals, and every other stored value, unchanged. *)
(***************************************************************************)
C21_InvalidRequestStoresNothing ==
    [][(reqRoute' = "POST /api/calculate-goals" /\ ~calculateGoalsSchema(reqBody'[1])) =>
          /\ UNCHANGED storageVars
          /\ "calculatePersonalizedGoals" \notin CalledBy(handlerCalls')
          /\ "storage.updateDailyGoals" \notin CalledBy(handlerCalls')
          /\ DOMAIN res'[1].json = {"message"}]_vars

\* an invalid request answered after an earlier request has stored its goals
C21_Witness ==
    /\ reqRoute = "POST /api/calculate-goals"
    /\ ~calculateGoalsSchema(reqBody[1])
    /\ res[1].status = 500
    /\ handlerCalls[1] = "calculateGoalsSchema.parse"
    /\ dailyGoals # MemStorageDailyGoals

\* the fields of a CalculatedGoals object; a result with a NaN lists it in a
\* ninth field
CalculatedGoalsFields ==
    {"calories", "carbs", "protein", "fat", "bmr", "tdee", "weightChangePerWeek", "calorieAdjustment"}

(***************************************************************************)
(* C22: for every request body that passes calculateGoalsSchema the        *)
(* calculation completes, and the endpoint answers 200 with a              *)
(* CalculatedGoals object whose eight fields are all defined numbers; the  *)
(* weeks divided by are never zero, since timeframe >= 1.                  *)
(***************************************************************************)
C22_ValidBodyAnswered ==
    (reqRoute = "POST /api/calculate-goals" /\ calculateGoalsSchema(reqBody[1])) =>
        /\ res[1].status = 200
        /\ DOMAIN res[1].json = CalculatedGoalsFields
        /\ \A f \in CalculatedGoalsFields \ {"weightChangePerWeek"} : res[1].json[f] \in Int
        /\ res[1].json.weightChangePerWeek.d > 0
        /\ RMul(RInt(reqBody[1].timeframe), R(433, 100)).n > 0
        /\ handlerCalls[Len(handlerCalls)] = "res.json"

\* the shortest timeframe, one month, with weight to lose
C22_Witness ==
    /\ reqRoute = "POST /api/calculate-goals"
    /\ calculateGoalsSchema(reqBody[1])
    /\ reqBody[1].timeframe = 1
    /\ reqBody[1].targetWeight # reqBody[1].currentWeight
    /\ res[1].status = 200
    /\ res[1].json.weightChangePerWeek = RInt(-1)

\* a step in which POST /api/calculate-goals answered 200, or PUT /api/goals
\* was handled
GoalsRequestStep ==
    /\ httpVars' # httpVars
    /\ \/ reqRoute' = "POST /api/calculate-goals" /\ res'[1].status = 200
       \/ reqRoute' = "PUT /api/goals"

\* a step in which POST /api/calculate-goals was handled
CalculateGoalsStep ==
    /\ reqRoute' = "POST /api/calculate-goals"
    /\ httpVars' # httpVars \/ dailyGoals' # dailyGoals

(***************************************************************************)
(* C23: after a successful POST /api/calculate-goals the stored daily      *)
(* goals have the calories, carbs, protein and fat of the returned         *)
(* CalculatedGoals and still id 1; GET /api/goals returns the stored       *)
(* goals, which stay these until the next successful calculate-goals or    *)
(* PUT /api/goals; and the request changes neither the entries nor the     *)
(* stored profile.                                                         *)
(***************************************************************************)
C23_CalculatedGoalsStored ==
    /\ [](Calculated =>
            dailyGoals = [id |-> 1, calories |-> Goals.calories, carbs |-> Goals.carbs,
                          protein |-> Goals.protein, fat |-> Goals.fat])
    /\ [](reqRoute = "GET /api/goals" => res[1].status = 200 /\ res[1].json = dailyGoals)
    /\ [][dailyGoals' # dailyGoals => GoalsRequestStep]_vars
    /\ [][CalculateGoalsStep =>
            UNCHANGED <<foodEntries, currentFoodEntryId, exerciseEntries, currentExerciseEntryId,
                        userProfileData>>]_vars

\* GET /api/goals answers with the goals calculated for the example profile,
\* while entries and a profile are stored
C23_Witness ==
    /\ reqRoute = "GET /api/goals"
    /\ res[1].json \in {[id |-> 1, calories |-> g.calories, carbs |-> g.carbs,
                         protein |-> g.protein, fat |-> g.fat] :
                            g \in calculatePersonalizedGoals(ExampleProfile)}
    /\ res[1].json # MemStorageDailyGoals
    /\ foodEntries # << >>
    /\ exerciseEntries # << >>
    /\ userProfileData # << >>

\* the dates asked for
Dates == {Dec31, Jan01, Jan02, Jan10}

\* the entries of a history that were created with the date and whose id has
\* not been deleted since
LiveOn(history, date) ==
    {history.created[id] : id \in {i \in DOMAIN history.created \ history.deleted :
                                      history.created[i].date = date}}

Elements(seq) == {seq[i] : i \in DOMAIN seq}

(***************************************************************************)
(* C24: after any sequence of createFoodEntry, deleteFoodEntry,            *)
(* createExerciseEntry and deleteExerciseEntry, getFoodEntriesByDate(d)    *)
(* returns exactly the food entries created with date d whose id has not   *)
(* since been passed to deleteFoodEntry, and getExerciseEntriesByDate(d)   *)
(* the same of the exercise entries; deleting an id that is not stored     *)
(* changes nothing, and an operation on one kind never changes the other.  *)
(***************************************************************************)
C24_EntriesByDate ==
    /\ [](\A d \in Dates :
            /\ Elements(getFoodEntriesByDate(d)) = LiveOn(foodHistory, d)
            /\ Len(getFoodEntriesByDate(d)) = Cardinality(LiveOn(foodHistory, d))
            /\ Elements(getExerciseEntriesByDate(d)) = LiveOn(exerciseHistory, d)
            /\ Len(getExerciseEntriesByDate(d)) = Cardinality(LiveOn(exerciseHistory, d)))
    /\ [][\A id \in 1..(MaxFoodEntryId + 1) :
            (id \notin DOMAIN foodEntries /\ deleteFoodEntry(id)) => UNCHANGED vars]_vars
    /\ [][\A id \in 1..(MaxExerciseEntryId + 1) :
            (id \notin DOMAIN exerciseEntries /\ deleteExerciseEntry(id)) => UNCHANGED vars]_vars
    /\ [][foodVars' # foodVars => UNCHANGED exerciseVars]_vars
    /\ [][exerciseVars' # exerciseVars => UNCHANGED foodVars]_vars

\* a food entry of 1 January was deleted while a food entry and an exercise
\* entry of that day are still stored
C24_Witness ==
    /\ \E id \in foodHistory.deleted : foodHistory.created[id].date = Jan01
    /\ Len(getFoodEntriesByDate(Jan01)) = 1
    /\ Len(getExerciseEntriesByDate(Jan01)) = 1
    /\ exerciseHistory.deleted # {}

\* the ids a history has handed out
Handed(history) == DOMAIN history.created

\* along a step, the ids handed out before keep their entries and a new id
\* is the next integer, above all earlier ones
NextId(history, historyAfter, entries, entriesAfter) ==
    /\ Handed(history) \subseteq Handed(historyAfter)
    /\ \A id \in Handed(history) : historyAfter.created[id] = history.created[id]
    /\ \A id \in Handed(historyAfter) \ Handed(history) :
          /\ id = Cardinality(Handed(history)) + 1
          /\ \A earlier \in Handed(history) : id > earlier
          /\ id \in DOMAIN entriesAfter /\ entriesAfter[id].id = id
    /\ \A id \in DOMAIN entriesAfter \cap Handed(history) :
          id \in DOMAIN entries /\ entriesAfter[id] = entries[id]

(***************************************************************************)
(* C25: the ids of food entries are handed out as 1, 2, 3, ... in the      *)
(* order of creation, each greater than all ids handed out before; no two  *)
(* stored entries share an id; and the id of a deleted entry is never      *)
(* handed out again.  The same holds, independently, of exercise entries.  *)
(***************************************************************************)
C25_FreshIds ==
    /\ [][NextId(foodHistory, foodHistory', foodEntries, foodEntries')]_vars
    /\ [][NextId(exerciseHistory, exerciseHistory', exerciseEntries, exerciseEntries')]_vars
    /\ [](/\ Handed(foodHistory) = 1..(currentFoodEntryId - 1)
          /\ Handed(exerciseHistory) = 1..(currentExerciseEntryId - 1)
          /\ \A id \in DOMAIN foodEntries : foodEntries[id].id = id
          /\ \A id \in DOMAIN exerciseEntries : exerciseEntries[id].id = id
          /\ Len(Values(foodEntries, currentFoodEntryId)) = Cardinality(DOMAIN foodEntries)
          /\ Len(Values(exerciseEntries, currentExerciseEntryId)) = Cardinality(DOMAIN exerciseEntries))

\* entry 1 of each kind was deleted before entry 2 was created; the two
\* kinds have handed out different numbers of ids
C25_Witness ==
    /\ DOMAIN foodEntries = {2}
    /\ foodHistory.deleted = {1}
    /\ DOMAIN exerciseEntries = {1}
    /\ currentExerciseEntryId = 2
    /\ currentFoodEntryId = 3

\* the dates on which a history has an entry that was not deleted
LiveDates(history) ==
    {history.created[id].date : id \in DOMAIN history.created \ history.deleted}

(***************************************************************************)
(* C27: getDateRange(start, end) returns, in ascending order and without   *)
(* duplicates, exactly the dates d with start <= d <= end, compared as     *)
(* strings and both ends included, that have at least one stored food or   *)
(* exercise entry; a date all of whose entries were deleted is no longer   *)
(* returned.                                                               *)
(***************************************************************************)
C27_DateRange ==
    \A start \in RangeEnds, end \in RangeEnds :
        LET dates == getDateRange(start, end)
        IN  /\ \A i \in 1..(Len(dates) - 1) : StringLess(dates[i], dates[i + 1])
            /\ Elements(dates) =
                   {d \in LiveDates(foodHistory) \cup LiveDates(exerciseHistory) :
                       StringLeq(start, d) /\ StringLeq(d, end)}

\* every entry of 1 January was deleted; the range from 31 December to
\* 10 January has the date of a food entry and the date of an exercise entry,
\* and the range from 2025 on loses 31 December
C27_Witness ==
    /\ \E id \in foodHistory.deleted : foodHistory.created[id].date = Jan01
    /\ \E id \in exerciseHistory.deleted : exerciseHistory.created[id].date = Jan01
    /\ getDateRange(Dec31, Jan10) = <<Dec31, Jan02>>
    /\ getDateRange(Year2025, Jan10) = <<Jan02>>
    /\ getDateRange(Jan10, Dec31) = << >>

\* the calories of the returned grams: 4 per gram of carbs and of protein,
\* 9 per gram of fat
MacroCalories(goals) == 4 * goals.carbs + 4 * goals.protein + 9 * goals.fat

(***************************************************************************)
(* C26: for every valid profile whose result has carbs > 0 the macro       *)
(* targets account for the calorie target,                                 *)
(* |4 * carbs + 4 * protein + 9 * fat - calories| <= 9 kcal; the macro     *)
(* calories exceed the calories by more than that only when carbs was      *)
(* clamped to 0, the protein and fat calories being above the calories.    *)
(***************************************************************************)
C26_MacrosAccountForCalories ==
    Calculated =>
        /\ Goals.carbs > 0 => Abs(MacroCalories(Goals) - Goals.calories) <= 9
        /\ MacroCalories(Goals) - Goals.calories > 9 =>
              /\ Goals.carbs = 0
              /\ MacroExcess(RMul(Profile.targetWeight, ProteinPerKg(Profile)), Goals.calories).n > 0

\* all three roundings go up: 2925 kcal, 365 g of carbs for 364.5, 162 g of
\* protein and 91 g of fat make 2927 kcal
C26_Witness ==
    /\ Calculated /\ Profile = HalfwayProfile
    /\ Goals.carbs = 365
    /\ MacroCalories(Goals) - Goals.calories = 2

\* a step in which a handler of POST /api/profile calls createUserProfile
CreateProfileStep ==
    \E i \in DOMAIN profileRequests :
        profileRequests[i].pc = "getUserProfile" /\ profileRequests'[i].pc = "createUserProfile"

(***************************************************************************)
(* C28: updateUserProfile raises 'No user profile exists' and leaves the   *)
(* storage unchanged when no profile has been created; POST /api/profile   *)
(* never fails that way under any interleaving of concurrent profile       *)
(* requests, since it creates the profile when none exists and a stored    *)
(* profile is never removed; the stored profile always has id 1 and keeps  *)
(* its createdAt across updates.                                           *)
(***************************************************************************)
C28_ProfileSaved ==
    /\ [][\A profile \in PartialUserProfileInputs :
            (userProfileData = << >> /\ updateUserProfile(profile)) =>
                raised' = "No user profile exists" /\ UNCHANGED storageVars]_vars
    /\ [](\A i \in DOMAIN profileRequests :
            /\ profileRequests[i].error # "No user profile exists"
            /\ (profileRequests[i].pc = "done" /\ insertUserProfileSchema(profileRequests[i].body))
                   => profileRequests[i].res[1].status = 200)
    /\ [][userProfileData # << >> => userProfileData' # << >>]_vars
    /\ [](userProfileData # << >> => userProfileData[1].id = 1)
    /\ [][(userProfileData # << >> /\ userProfileData' # userProfileData /\ ~CreateProfileStep) =>
            /\ userProfileData'[1].createdAt = userProfileData[1].createdAt
            /\ userProfileData'[1].id = userProfileData[1].id]_vars

\* a direct update threw before any profile was stored; then two requests
\* were answered 200, the second of which, sent with id 7, found the profile
\* of the first and updated it at a later time
C28_Witness ==
    /\ raised = "No user profile exists"
    /\ Len(profileRequests) = 2
    /\ \A i \in 1..2 : profileRequests[i].pc = "done" /\ profileRequests[i].res[1].status = 200
    /\ profileRequests[1].existingProfile = << >>
    /\ profileRequests[2].existingProfile # << >>
    /\ "id" \in DOMAIN profileRequests[2].body
    /\ userProfileData[1].id = 1
    /\ userProfileData[1].targetWeight = RInt(85)
    /\ userProfileData[1].createdAt < userProfileData[1].updatedAt

\* the first submit: from step 1 to step 2, with nothing saved and nothing sent
FirstSubmitStep ==
    \A data \in WizardData :
        (step = 1 /\ WizardSubmit(data)) =>
            (step' = 2 /\ UNCHANGED <<localStore, pending, calculatedResults, httpVars>>)

\* the request of the pending submit has been answered with status 200
PendingCalculated ==
    /\ pending # << >>
    /\ Calculated
    /\ reqBody = <<pending[1].data>>

\* the profile of the pending submit is in local storage
PendingProfileWritten ==
    localStore.userProfile = <<WizardProfile(pending[1].data, now)>>

\* step 3 is entered only by a submit whose request was answered, with that
\* answer as calculatedResults
ResultsStep ==
    (step # 3 /\ step' = 3) =>
        /\ PendingCalculated
        /\ pending[1].stored => PendingProfileWritten
        /\ calculatedResults' = <<res[1].json>>
        /\ pending' = << >>

\* a submit ends without its results: the calculation failed
FailedCalculation == pending # << >> /\ pending' = << >> /\ calculatedResults' = calculatedResults

C30_DashboardAfterWizard ==
    (completed /\ profileQuery.fetched /\ profileQuery.afterSave) =>
        /\ profileQuery.data # << >>
        /\ ~ShowsWizard
====
